---- MODULE Spec2Model ----
(***************************************************************************)
(* JanitorService (src/src/JanitorService.ts): one pass of health checks   *)
(* over the shipRecords and slapRecords collections of a MongoDB database. *)
(*                                                                         *)
(* Strings of the program are sequences of one-character strings, so that  *)
(* startsWith, URL parsing and the three hostname regular expressions are  *)
(* computed character by character.                                        *)
(***************************************************************************)
EXTENDS Integers, Sequences, FiniteSets, TLC

(***************************************************************************)
(* Bounds of the model.                                                    *)
(***************************************************************************)
\* number of run() passes the scheduler starts
MaxPasses == 3
\* largest down value a record holds before the first pass
MaxInitDown == 2

(***************************************************************************)
(* Characters and strings.                                                 *)
(***************************************************************************)
Lowers == {"a","b","c","d","e","f","g","h","i","j","k","l","m",
           "n","o","p","q","r","s","t","u","v","w","x","y","z"}
Uppers == {"A","B","C","D","E","F","G","H","I","J","K","L","M",
           "N","O","P","Q","R","S","T","U","V","W","X","Y","Z"}
Digits == {"0","1","2","3","4","5","6","7","8","9"}
Alphas == Lowers \cup Uppers
Alnums == Alphas \cup Digits

\* String.prototype.startsWith
StartsWith(s, p) ==
  /\ Len(s) >= Len(p)
  /\ SubSeq(s, 1, Len(p)) = p

\* index of the first element of s that lies in the set cs, 0 when none
RECURSIVE FirstIn(_, _, _)
FirstIn(s, cs, i) ==
  IF i > Len(s) THEN 0
  ELSE IF s[i] \in cs THEN i
  ELSE FirstIn(s, cs, i + 1)

\* index of the last element of s that lies in the set cs, 0 when none
RECURSIVE LastIn(_, _, _)
LastIn(s, cs, i) ==
  IF i < 1 THEN 0
  ELSE IF s[i] \in cs THEN i
  ELSE LastIn(s, cs, i - 1)

\* s without its leading elements that lie in cs
RECURSIVE DropLeading(_, _)
DropLeading(s, cs) ==
  IF s # << >> /\ Head(s) \in cs THEN DropLeading(Tail(s), cs) ELSE s

\* the labels of a host name: s split at every "."
RECURSIVE SplitDots(_)
SplitAt(s, i) ==
  IF i = 0 THEN << s >>
  ELSE << SubSeq(s, 1, i - 1) >> \o SplitDots(SubSeq(s, i + 1, Len(s)))

SplitDots(s) == SplitAt(s, FirstIn(s, {"."}, 1))

AllIn(s, cs) == \A i \in 1..Len(s) : s[i] \in cs

\* ASCII lower-casing, as the URL host parser applies it
LowerOf(c) ==
  CASE c = "A" -> "a" [] c = "B" -> "b" [] c = "C" -> "c" [] c = "D" -> "d"
    [] c = "E" -> "e" [] c = "F" -> "f" [] c = "G" -> "g" [] c = "H" -> "h"
    [] c = "I" -> "i" [] c = "J" -> "j" [] c = "K" -> "k" [] c = "L" -> "l"
    [] c = "M" -> "m" [] c = "N" -> "n" [] c = "O" -> "o" [] c = "P" -> "p"
    [] c = "Q" -> "q" [] c = "R" -> "r" [] c = "S" -> "s" [] c = "T" -> "t"
    [] c = "U" -> "u" [] c = "V" -> "v" [] c = "W" -> "w" [] c = "X" -> "x"
    [] c = "Y" -> "y" [] c = "Z" -> "z" [] OTHER -> c

ToLower(s) == [i \in 1..Len(s) |-> LowerOf(s[i])]

DigitVal(c) ==
  CASE c = "0" -> 0 [] c = "1" -> 1 [] c = "2" -> 2 [] c = "3" -> 3
    [] c = "4" -> 4 [] c = "5" -> 5 [] c = "6" -> 6 [] c = "7" -> 7
    [] c = "8" -> 8 [] c = "9" -> 9 [] OTHER -> 0

\* value of a string of decimal digits
RECURSIVE DecVal(_)
DecVal(s) ==
  IF s = << >> THEN 0
  ELSE 10 * DecVal(SubSeq(s, 1, Len(s) - 1)) + DigitVal(s[Len(s)])

(***************************************************************************)
(* new URL(input) without a base, for inputs without leading or trailing   *)
(* white space, IPv6 literals, percent escapes, non-ASCII characters or    *)
(* hexadecimal IPv4 parts.  The result is a record with ok = FALSE when    *)
(* the constructor throws a TypeError.                                     *)
(***************************************************************************)
SchemeChars == Alnums \cup {"+", "-", "."}
SpecialSchemes == { <<"h","t","t","p">>, <<"h","t","t","p","s">>,
                    <<"w","s">>, <<"w","s","s">>, <<"f","t","p">> }
AuthorityEnd == {"/", "\\", "?", "#"}
ForbiddenHost == {" ", "#", "/", ":", "<", ">", "?", "@", "[", "\\", "]", "^", "|"}
ForbiddenDomain == ForbiddenHost \cup {"%"}
MaxPort == 65535

URLFailure == [ok |-> FALSE, scheme |-> << >>, hostname |-> << >>, port |-> << >>]

\* decimal digits of a natural number
RECURSIVE DecStr(_)
DecStr(n) ==
  IF n < 10 THEN << CHOOSE c \in Digits : DigitVal(c) = n >>
  ELSE DecStr(n \div 10) \o << CHOOSE c \in Digits : DigitVal(c) = n % 10 >>

RECURSIVE OctVal(_)
OctVal(s) ==
  IF s = << >> THEN 0
  ELSE 8 * OctVal(SubSeq(s, 1, Len(s) - 1)) + DigitVal(s[Len(s)])

\* one part of an IPv4 host: decimal, or octal when it has a leading zero;
\* -1 when it is not a number
IPv4Part(s) ==
  IF s = << >> \/ ~AllIn(s, Digits) THEN -1
  ELSE IF Len(s) > 1 /\ s[1] = "0"
       THEN IF AllIn(s, Digits \ {"8", "9"}) THEN OctVal(s) ELSE -1
       ELSE DecVal(s)

RECURSIVE Pow256(_)
Pow256(n) == IF n = 0 THEN 1 ELSE 256 * Pow256(n - 1)

\* the value of parts 1..k as base-256 digits
RECURSIVE IPv4Prefix(_, _)
IPv4Prefix(vals, k) ==
  IF k = 0 THEN 0 ELSE 256 * IPv4Prefix(vals, k - 1) + vals[k]

\* the serialisation of an IPv4 address
Quad(addr) ==
  DecStr(addr \div 16777216) \o <<".">>
    \o DecStr((addr \div 65536) % 256) \o <<".">>
    \o DecStr((addr \div 256) % 256) \o <<".">>
    \o DecStr(addr % 256)

\* the IPv4 parser on the parts of a host and their values
IPv4OfVals(vals, n) ==
  IF \/ n > 4
     \/ \E i \in 1..n : vals[i] < 0
     \/ \E i \in 1..(n - 1) : vals[i] > 255
     \/ vals[n] >= Pow256(5 - n)
  THEN [isNumber |-> TRUE, ok |-> FALSE, text |-> << >>]
  ELSE [isNumber |-> TRUE, ok |-> TRUE,
        text |-> Quad(IPv4Prefix(vals, n - 1) * Pow256(5 - n) + vals[n])]

\* the host parser's "ends in a number" test
IPv4OfParts(host, parts) ==
  IF parts[Len(parts)] # << >> /\ AllIn(parts[Len(parts)], Digits)
  THEN IPv4OfVals([i \in 1..Len(parts) |-> IPv4Part(parts[i])], Len(parts))
  ELSE [isNumber |-> FALSE, ok |-> TRUE, text |-> host]

\* a single trailing empty label (a trailing dot) is dropped
DropLastEmpty(raw) ==
  IF Len(raw) > 1 /\ raw[Len(raw)] = << >>
  THEN SubSeq(raw, 1, Len(raw) - 1) ELSE raw

IPv4OfHost(host) == IPv4OfParts(host, DropLastEmpty(SplitDots(host)))

\* the result of the host parser for a host without forbidden code points
HostResult(scheme, host, port, special, ip) ==
  IF special /\ ip.isNumber
  THEN IF ip.ok
       THEN [ok |-> TRUE, scheme |-> scheme, hostname |-> ip.text, port |-> port]
       ELSE URLFailure
  ELSE [ok |-> TRUE, scheme |-> scheme, hostname |-> host, port |-> port]

ParseHost(scheme, host, port, special, forbidden) ==
  IF ~AllIn(port, Digits) \/ DecVal(port) > MaxPort THEN URLFailure
  ELSE IF \E i \in 1..Len(host) : host[i] \in forbidden THEN URLFailure
  ELSE HostResult(scheme, host, port, special, IPv4OfHost(host))

\* hostport = host [":" port], colon the index of the first ":" or 0
ParseHostPort(scheme, hostport, colon, hasUserinfo, special) ==
  IF /\ colon = 1 \/ hostport = << >>
     /\ special \/ hasUserinfo \/ colon > 0
  THEN URLFailure
  ELSE ParseHost(scheme,
                 IF special
                 THEN ToLower(SubSeq(hostport, 1,
                                     IF colon = 0 THEN Len(hostport) ELSE colon - 1))
                 ELSE SubSeq(hostport, 1,
                             IF colon = 0 THEN Len(hostport) ELSE colon - 1),
                 IF colon = 0 THEN << >>
                 ELSE SubSeq(hostport, colon + 1, Len(hostport)),
                 special,
                 IF special THEN ForbiddenDomain ELSE ForbiddenHost)

\* authority = [userinfo "@"] hostport, at the index of the last "@" or 0
ParseUserinfo(scheme, auth, at, special) ==
  ParseHostPort(scheme, SubSeq(auth, at + 1, Len(auth)),
                FirstIn(SubSeq(auth, at + 1, Len(auth)), {":"}, 1),
                at > 0, special)

ParseAuthority(scheme, auth, special) ==
  ParseUserinfo(scheme, auth, LastIn(auth, {"@"}, Len(auth)), special)

\* r up to the index e of the character that ends the authority, or all of r
UpTo(r, e) == IF e = 0 THEN r ELSE SubSeq(r, 1, e - 1)

\* after "scheme:" of a special scheme: any run of slashes, then the authority
ParseSpecial(scheme, r) ==
  ParseAuthority(scheme, UpTo(r, FirstIn(r, AuthorityEnd, 1)), TRUE)

\* after "scheme://" of any other scheme: an opaque host
ParseOpaque(scheme, r) ==
  ParseAuthority(scheme, UpTo(r, FirstIn(r, {"/", "?", "#"}, 1)), FALSE)

ParseAfterScheme(scheme, rest) ==
  IF scheme \in SpecialSchemes
  THEN ParseSpecial(scheme, DropLeading(rest, {"/", "\\"}))
  ELSE IF StartsWith(rest, <<"/", "/">>)
  THEN ParseOpaque(scheme, SubSeq(rest, 3, Len(rest)))
  ELSE [ok |-> TRUE, scheme |-> scheme, hostname |-> << >>, port |-> << >>]

\* stop: index of the first character that cannot be part of a scheme, or 0
ParseScheme(input, stop) ==
  IF stop <= 1 \/ input[stop] # ":" \/ input[1] \notin Alphas
  THEN URLFailure
  ELSE ParseAfterScheme(ToLower(SubSeq(input, 1, stop - 1)),
                        SubSeq(input, stop + 1, Len(input)))

ParseURL(input) ==
  ParseScheme(input,
              FirstIn(input, {input[i] : i \in 1..Len(input)} \ SchemeChars, 1))

(***************************************************************************)
(* JanitorService.isValidDomain                                            *)
(***************************************************************************)
HTTP == <<"h","t","t","p">>
HTTPS_PREFIX == <<"h","t","t","p","s",":","/","/">>
LOCALHOST == <<"l","o","c","a","l","h","o","s","t">>
\* the {0,61} of domainRegex and the {1,3} of ipv4Regex
LabelMiddleMax == 61
OctetDigitsMax == 3

\* [a-z0-9](?:[a-z0-9-]{0,61}[a-z0-9])?   (case-insensitive)
InnerLabel(l) ==
  /\ Len(l) >= 1
  /\ Len(l) <= LabelMiddleMax + 2
  /\ l[1] \in Alnums
  /\ l[Len(l)] \in Alnums
  /\ AllIn(l, Alnums \cup {"-"})

\* [a-z0-9][a-z0-9-]{0,61}[a-z0-9]   (case-insensitive)
LastLabel(l) ==
  /\ Len(l) >= 2
  /\ Len(l) <= LabelMiddleMax + 2
  /\ l[1] \in Alnums
  /\ l[Len(l)] \in Alnums
  /\ AllIn(l, Alnums \cup {"-"})

\* /^(?:[a-z0-9](?:[a-z0-9-]{0,61}[a-z0-9])?\.)+[a-z0-9][a-z0-9-]{0,61}[a-z0-9]$/i
\* on the labels of the host name
domainRegex(ls) ==
  /\ Len(ls) >= 2
  /\ \A i \in 1..(Len(ls) - 1) : InnerLabel(ls[i])
  /\ LastLabel(ls[Len(ls)])

\* /^localhost$/i
localhostRegex(hostname) == ToLower(hostname) = LOCALHOST

\* /^(\d{1,3}\.){3}\d{1,3}$/ on the labels of the host name
ipv4Regex(ls) ==
  /\ Len(ls) = 4
  /\ \A i \in 1..4 : /\ Len(ls[i]) >= 1
                     /\ Len(ls[i]) <= OctetDigitsMax
                     /\ AllIn(ls[i], Digits)

\* url.startsWith('http') ? url : `https://${url}`
WithScheme(url) == IF StartsWith(url, HTTP) THEN url ELSE HTTPS_PREFIX \o url

\* the three tests of isValidDomain on parsedURL.hostname
HostnameMatches(hostname, ls) ==
  domainRegex(ls) \/ localhostRegex(hostname) \/ ipv4Regex(ls)

ValidParsed(parsedURL) ==
  IF ~parsedURL.ok THEN FALSE
  ELSE HostnameMatches(parsedURL.hostname, SplitDots(parsedURL.hostname))

isValidDomain(url) == ValidParsed(ParseURL(WithScheme(url)))

(***************************************************************************)
(* Values of record fields.  A field value is tagged with what typeof /    *)
(* Array.isArray report for it; v is the string, or the array's elements.  *)
(***************************************************************************)
Undefined == [t |-> "undefined", v |-> << >>]
NumberValue == [t |-> "number", v |-> << >>]
Str(s) == [t |-> "string", v |-> s]
Arr(a) == [t |-> "array", v |-> a]

A_CO == <<"a",".","c","o">>
HTTPS_A_CO == HTTPS_PREFIX \o A_CO
BAD_HOST == <<"b"," ","d","!">>
WSS_X == <<"w","s","s",":","/","/","x",".","c","o">>
HTTPX_IO == <<"h","t","t","p","x",".","i","o">>
IP_ADDR == <<"1",".","2",".","3",".","4">>
HTTP_LOCALHOST_PORT == <<"h","t","t","p",":","/","/">> \o LOCALHOST \o <<":","8","0">>

NoAddress ==
  [domain |-> Undefined, url |-> Undefined, serviceURL |-> Undefined,
   protocols |-> Undefined]

\* the shapes of the stored documents the model draws its records from
Shapes ==
  { [NoAddress EXCEPT !.domain = Str(A_CO)],
    [NoAddress EXCEPT !.domain = Str(BAD_HOST),
                      !.protocols = Arr(<< Str(HTTPS_A_CO) >>)],
    [NoAddress EXCEPT !.domain = Str(HTTPX_IO)],
    [NoAddress EXCEPT !.domain = NumberValue, !.url = Str(HTTPS_A_CO),
                      !.serviceURL = Str(BAD_HOST)],
    [NoAddress EXCEPT !.url = Str(BAD_HOST), !.serviceURL = Str(A_CO)],
    [NoAddress EXCEPT !.serviceURL = Str(HTTP_LOCALHOST_PORT),
                      !.protocols = Arr(<< Str(HTTPS_A_CO) >>)],
    [NoAddress EXCEPT !.serviceURL = Str(IP_ADDR)],
    [NoAddress EXCEPT !.protocols =
        Arr(<< Str(WSS_X), NumberValue, Str(HTTPS_A_CO), Str(HTTPS_PREFIX \o BAD_HOST) >>)],
    [NoAddress EXCEPT !.protocols = Arr(<< Str(WSS_X), Str(A_CO) >>)],
    [NoAddress EXCEPT !.protocols = Arr(<< >>)],
    NoAddress }

(***************************************************************************)
(* JanitorService.extractURLFromOutput: the result is a field value, or    *)
(* Null.                                                                   *)
(***************************************************************************)
Null == [t |-> "null", v |-> << >>]

\* Array.prototype.find with p => typeof p === 'string' && p.startsWith('https://')
RECURSIVE FindHttps(_, _)
FindHttps(a, i) ==
  IF i > Len(a) THEN Undefined
  ELSE IF a[i].t = "string" /\ StartsWith(a[i].v, HTTPS_PREFIX) THEN a[i]
  ELSE FindHttps(a, i + 1)

\* extractURLFromOutput with the protocols array consulted first
extractURLFromOutput_protocolsFirst(output) ==
  IF /\ output.protocols.t = "array"
     /\ Len(output.protocols.v) > 0
     /\ FindHttps(output.protocols.v, 1) # Undefined
  THEN FindHttps(output.protocols.v, 1)
  ELSE IF output.domain.t = "string" THEN output.domain
  ELSE IF output.url.t = "string" THEN output.url
  ELSE IF output.serviceURL.t = "string" THEN output.serviceURL
  ELSE Null

extractURLFromOutput(output) ==
  IF output.domain.t = "string" THEN output.domain
  ELSE IF output.url.t = "string" THEN output.url
  ELSE IF output.serviceURL.t = "string" THEN output.serviceURL
  ELSE IF output.protocols.t = "array" /\ Len(output.protocols.v) > 0
       THEN LET httpsProtocol == FindHttps(output.protocols.v, 1)
            IN  IF httpsProtocol # Undefined THEN httpsProtocol ELSE Null
       ELSE Null

(***************************************************************************)
(* JanitorService.checkHealthEndpoint                                      *)
(***************************************************************************)
\* new URL('/health', fullURL): scheme, host and port of the base, path
\* /health; a TypeError when the base does not parse or has an opaque path
HealthBase(base) ==
  IF ~base.ok THEN URLFailure
  ELSE IF base.scheme \notin SpecialSchemes /\ base.hostname = << >>
  THEN URLFailure
  ELSE base

HealthURL(url) == HealthBase(ParseURL(WithScheme(url)))

\* what fetch(healthURL) and response.json() can do: the peer answers with a
\* status and a body, the connection fails, or the timer aborts the request
NoOutcome == [fetch |-> "none", ok |-> FALSE, body |-> "none"]
Response(ok, body) == [fetch |-> "response", ok |-> ok, body |-> body]
NetworkError == [fetch |-> "networkError", ok |-> FALSE, body |-> "none"]
AbortError == [fetch |-> "abort", ok |-> FALSE, body |-> "none"]
\* body: {"status":"ok"}, {"status":"error"}, null, or not JSON at all
Bodies == {"statusOk", "statusOther", "null", "unparsable"}
\* how fetch can settle before the timer fires
ProbeOutcomes ==
  {Response(TRUE, b) : b \in Bodies}
    \cup {Response(FALSE, "statusOk"), NetworkError}

\* fetch speaks http and https only; any other scheme rejects with a TypeError
OutcomesFor(healthURL) ==
  IF healthURL.scheme \in {HTTP, <<"h","t","t","p","s">>}
  THEN ProbeOutcomes ELSE {NetworkError}

\* checkHealthEndpoint goes on to await response.json() only when fetch
\* resolved with response.ok
ReadsBody(outcome) == outcome.fetch = "response" /\ outcome.ok

\* the inner catch of checkHealthEndpoint without its timeout message
ProbeLog_silent(outcome) == << >>

\* what the inner catch of checkHealthEndpoint logs
ProbeLog(outcome) ==
  IF outcome.fetch = "abort" THEN << "timeout" >> ELSE << >>

\* fetch or response.json() rejected: the inner catch of checkHealthEndpoint
ProbeErrored(outcome) ==
  \/ outcome.fetch \in {"networkError", "abort"}
  \/ outcome.fetch = "response" /\ outcome.ok /\ outcome.body = "unparsable"

\* checkHealthEndpoint without the response.ok test
IsHealthy_ignoresOk(outcome) ==
  IF outcome.fetch # "response" THEN FALSE
  ELSE IF outcome.body = "unparsable" THEN FALSE
  ELSE outcome.body = "statusOk"

\* the value checkHealthEndpoint returns for what fetch and json() did
IsHealthy(outcome) ==
  IF outcome.fetch # "response" THEN FALSE
  ELSE IF ~outcome.ok THEN FALSE
  ELSE IF outcome.body = "unparsable" THEN FALSE
  ELSE outcome.body = "statusOk"

(***************************************************************************)
(* Configuration and the record store.                                     *)
(***************************************************************************)
\* config.hostDownRevokeScore ?? 3
hostDownRevokeScore == 3

Collections == <<"shipRecords", "slapRecords">>
ShipIds == {1, 2}
SlapIds == {3}
Ids == ShipIds \cup SlapIds
IdsOf(c) == IF c = "shipRecords" THEN ShipIds ELSE SlapIds

\* values of the down field: absent, not a number, or a number
Absent == [t |-> "undefined", n |-> 0]
NotNumber == [t |-> "string", n |-> 0]
Num(n) == [t |-> "number", n |-> n]

\* invocations of run() that can be in flight; the scheduler of Spec uses one
Slots == {1, 2}
SeqSlots == {1}

VARIABLES
  recs,      \* id -> address fields of the stored document (never written)
  docs,      \* ids of the documents in the store
  down,      \* id -> stored down field
  budget,    \* passes the scheduler will still start
  pc,        \* slot -> position of its run()
  coll,      \* slot -> collection being swept
  outputs,   \* slot -> the array find({}).toArray() returned
  idx,       \* slot -> position in outputs
  cur,       \* slot -> the evaluation of the current record
  evaluated, \* slot -> ids checkOutput was called for in this pass
  errlog,    \* slot -> collection-level logger.error calls of this pass
  result,    \* slot -> how the promise of run() settled
  pre,       \* slot -> docs and down when the pass started
  fetches,   \* slot -> the find({}).toArray() calls of this pass, in order
  fetched,   \* slot -> ids the fetches of this pass returned
  failed,    \* slot -> ids whose probe or store call failed in this pass
  timer,     \* slot -> whether the setTimeout of checkHealthEndpoint is pending
  issued,    \* slot -> the store calls of this pass, in order
  observed,  \* ids whose evaluations are recorded across passes
  origin,    \* id -> the stored down field before the first pass, where recorded
  hist,      \* id -> the verdicts of its evaluations over all passes, in order
  app,       \* the OverlayExpress instance
  http       \* the last request the Express app answered

janitorVars ==
  << recs, docs, down, budget, pc, coll, outputs, idx, cur, evaluated,
     errlog, result, pre, fetches, fetched, failed, timer, issued,
     observed, origin, hist >>

serverVars == << app, http >>

vars == << janitorVars, serverVars >>

NoEval ==
  [id |-> 0, fetched |-> Absent, url |-> Null, valid |-> FALSE,
   probed |-> FALSE, outcome |-> NoOutcome, verdict |-> "none",
   ops |-> << >>, log |-> << >>]

\* ids in ascending order, as a sequence
RECURSIVE SeqOf(_)
SeqOf(S) ==
  IF S = {} THEN << >>
  ELSE LET m == CHOOSE x \in S : \A y \in S : x <= y
       IN  << m >> \o SeqOf(S \ {m})

\* find({}).toArray() handing every document the down field of the first
FindAll_firstDown(c) ==
  LET ids == SeqOf(IdsOf(c) \cap docs)
  IN  [i \in 1..Len(ids) |-> [id |-> ids[i], down |-> down[ids[1]]]]

\* collection.find({}).toArray()
FindAll(c) ==
  LET ids == SeqOf(IdsOf(c) \cap docs)
  IN  [i \in 1..Len(ids) |-> [id |-> ids[i], down |-> down[ids[i]]]]

\* updateOne with upsert: true, which inserts a document when none matches
IncDocs_upsert(id) == docs \cup {id}

\* the documents after collection.updateOne({ _id }, { $inc }): no upsert, so
\* an _id that matches nothing inserts nothing
IncDocs(id) == docs

\* a read-modify-write in place of $inc: the value read before the passes
\* plus delta is written back
IncDown_readModifyWrite(id, delta) ==
  IF id \notin docs THEN down
  ELSE [down EXCEPT ![id] = Num(origin[id].n + delta)]

\* collection.updateOne({ _id }, { $inc: { down: delta } }), acknowledged
IncDown(id, delta) ==
  IF id \notin docs THEN down
  ELSE [down EXCEPT ![id] = IF @.t = "number" THEN Num(@.n + delta) ELSE Num(delta)]

\* $inc on a field that holds a non-number is a write error
IncRejects(id) == id \in docs /\ down[id].t = "string"

\* origin where the values before the first pass are not recorded
NoOrigin == [i \in Ids |-> Absent]

InitSlots ==
  /\ pc = [j \in Slots |-> "idle"]
  /\ coll = [j \in Slots |-> "shipRecords"]
  /\ outputs = [j \in Slots |-> << >>]
  /\ idx = [j \in Slots |-> 0]
  /\ cur = [j \in Slots |-> NoEval]
  /\ evaluated = [j \in Slots |-> {}]
  /\ errlog = [j \in Slots |-> << >>]
  /\ result = [j \in Slots |-> "none"]
  /\ pre = [j \in Slots |-> [docs |-> {}, down |-> [i \in Ids |-> Absent]]]
  /\ fetches = [j \in Slots |-> << >>]
  /\ fetched = [j \in Slots |-> {}]
  /\ failed = [j \in Slots |-> {}]
  /\ timer = [j \in Slots |-> "off"]
  /\ issued = [j \in Slots |-> << >>]
  /\ hist = [i \in Ids |-> << >>]

(***************************************************************************)
(* OverlayExpress: the constructor, the configure methods, start() and the *)
(* middleware and routes start() registers on the Express app.             *)
(***************************************************************************)
\* adminToken || uuidv4(): an absent or empty argument yields a generated token
AdminTokenOf(arg, generated) ==
  IF arg.t = "string" /\ arg.v # << >> THEN arg.v ELSE generated

TOKEN_S == << "s" >>
TOKEN_U == << "u" >>
\* the adminToken arguments a caller passes, and what uuidv4() returns
AdminTokenArgs == {Undefined, Str(<< >>), Str(TOKEN_S)}
GeneratedTokens == {TOKEN_U}

\* what the configure methods build up: managers, services, migrationsToRun
\* and engine
NoConfiguration ==
  [managers |-> {}, services |-> {}, migrationsToRun |-> << >>,
   engine |-> FALSE]

\* no configure method called yet
NoCall ==
  [op |-> "none", threw |-> FALSE, factory |-> 0, before |-> NoConfiguration]

\* the instance the constructor returns; last describes the latest call of a
\* configure method, events the latest call of start()
NewApp(adminToken) ==
  [knex |-> FALSE, mongoDb |-> FALSE, engine |-> FALSE,
   adminToken |-> adminToken, arcApiKey |-> FALSE, enableGASPSync |-> TRUE,
   verboseRequestLogging |-> FALSE, stack |-> << >>, migrations |-> "none",
   listening |-> FALSE, started |-> "none", starts |-> 0, served |-> 0,
   atStart |-> [engine |-> FALSE, knex |-> FALSE],
   managers |-> {}, services |-> {}, migrationsToRun |-> << >>,
   last |-> NoCall, events |-> << >>]

Configuration(a) ==
  [managers |-> a.managers, services |-> a.services,
   migrationsToRun |-> a.migrationsToRun, engine |-> a.engine]

\* configure calls go unrecorded
Unrecorded == [NoCall EXCEPT !.op = "unrecorded"]

\* the record of a call of op on instance a, where calls are recorded: whether
\* it threw and how many times it invoked a service factory
Called(a, op, threw, factory) ==
  IF a.last = Unrecorded
  THEN Unrecorded
  ELSE [op |-> op, threw |-> threw, factory |-> factory,
        before |-> Configuration(a)]

\* configureTopicManager(name, manager)
configureTopicManager(a, name) ==
  [a EXCEPT !.managers = @ \cup {name}]

\* configureLookupServiceWithKnex(name, serviceFactory)
configureLookupServiceWithKnex(a, name) ==
  IF ~a.knex
  THEN [a EXCEPT !.last = Called(a, "configureLookupServiceWithKnex", TRUE, 0)]
  ELSE [a EXCEPT !.services = @ \cup {name},
                 !.migrationsToRun = Append(@, name),
                 !.last = Called(a, "configureLookupServiceWithKnex", FALSE, 1)]

\* configureLookupServiceWithMongo(name, serviceFactory)
configureLookupServiceWithMongo(a, name) ==
  IF ~a.mongoDb
  THEN [a EXCEPT !.last = Called(a, "configureLookupServiceWithMongo", TRUE, 0)]
  ELSE [a EXCEPT !.services = @ \cup {name},
                 !.last = Called(a, "configureLookupServiceWithMongo", FALSE, 1)]

\* configureEngine(autoConfigureShipSlap): ensureKnex(), then with
\* autoConfigureShipSlap the two topic managers and the two lookup services,
\* the first of which calls ensureMongo(), then the storage migrations and
\* the Engine
configureEngine(a, autoConfigureShipSlap) ==
  IF ~a.knex
  THEN [a EXCEPT !.last = Called(a, "configureEngine", TRUE, 0)]
  ELSE IF autoConfigureShipSlap /\ ~a.mongoDb
  THEN [a EXCEPT !.managers = @ \cup {"tm_ship", "tm_slap"},
                 !.last = Called(a, "configureEngine", TRUE, 0)]
  ELSE IF autoConfigureShipSlap
  THEN [a EXCEPT !.managers = @ \cup {"tm_ship", "tm_slap"},
                 !.services = @ \cup {"ls_ship", "ls_slap"},
                 !.migrationsToRun = << "KnexStorage" >> \o @,
                 !.engine = TRUE,
                 !.last = Called(a, "configureEngine", FALSE, 2)]
  ELSE [a EXCEPT !.migrationsToRun = << "KnexStorage" >> \o @,
                 !.engine = TRUE,
                 !.last = Called(a, "configureEngine", FALSE, 0)]

NoRequest ==
  [method |-> "none", path |-> "none", authorization |-> Undefined,
   body |-> "none", topics |-> "none"]
NoResponse ==
  [req |-> NoRequest, status |-> 0, calls |-> << >>, sends |-> << >>]

\* start() checking the engine only
Ensure_engineOnly(a) == IF ~a.engine THEN "engine" ELSE "none"

\* ensureEngine() then ensureKnex(), the first two statements of start():
\* which of them throws
Ensure(a) ==
  IF ~a.engine THEN "engine" ELSE IF ~a.knex THEN "knex" ELSE "none"

ADMIN_SYNC == "/admin/syncAdvertisements"
ADMIN_GASP == "/admin/startGASPSync"
LOOKUP == "/lookup"
AdminPaths == {ADMIN_SYNC, ADMIN_GASP}

\* the app.use, app.get and app.post calls of start() before the migrations
Registered(a) ==
  << "bodyParser.json", "bodyParser.raw" >>
    \o (IF a.verboseRequestLogging THEN << "verbose" >> ELSE << >>)
    \o << "cors", "GET /", "GET /listTopicManagers",
          "GET /listLookupServiceProviders",
          "GET /getDocumentationForTopicManager",
          "GET /getDocumentationForLookupServiceProvider",
          "POST /submit", "POST /lookup" >>
    \o (IF a.arcApiKey THEN << "POST /arc-ingest" >> ELSE << >>)
    \o (IF a.enableGASPSync
        THEN << "POST /requestSyncResponse", "POST /requestForeignGASPNode" >>
        ELSE << >>)
    \o << "POST /admin/syncAdvertisements", "POST /admin/startGASPSync" >>

BEARER == << "B", "e", "a", "r", "e", "r", " " >>

\* the Authorization headers of the requests
AuthHeaders ==
  {Undefined, Str(<< >>), Str(BEARER), Str(BEARER \o TOKEN_S),
   Str(BEARER \o TOKEN_U), Str(BEARER \o TOKEN_S \o << "x" >>),
   Str(<< "b", "e", "a", "r", "e", "r", " " >> \o TOKEN_S),
   Str(<< "B", "e", "a", "r", "e", "r" >> \o TOKEN_S),
   Str(<< " " >> \o BEARER \o TOKEN_S), Str(TOKEN_S)}

\* the requests: method, path, Authorization header, and whether the JSON
\* body parses
Requests ==
  [method : {"POST", "GET", "OPTIONS"}, path : AdminPaths \cup {LOOKUP},
   authorization : AuthHeaders, body : {"json", "malformed"},
   topics : {"none"}]

UNAUTHORIZED == 401
FORBIDDEN == 403

\* checkAdminAuth comparing only the prefix of the presented token
checkAdminAuth_prefix(authHeader, adminToken) ==
  IF authHeader.t # "string" \/ authHeader.v = << >>
       \/ ~StartsWith(authHeader.v, BEARER)
  THEN UNAUTHORIZED
  ELSE IF ~StartsWith(SubSeq(authHeader.v, Len(BEARER) + 1, Len(authHeader.v)),
                      adminToken)
  THEN FORBIDDEN
  ELSE 0

\* checkAdminAuth: the status it answers with, 0 when it calls next()
checkAdminAuth(authHeader, adminToken) ==
  IF authHeader.t # "string" \/ authHeader.v = << >>
       \/ ~StartsWith(authHeader.v, BEARER)
  THEN UNAUTHORIZED
  ELSE IF SubSeq(authHeader.v, Len(BEARER) + 1, Len(authHeader.v)) # adminToken
  THEN FORBIDDEN
  ELSE 0

OK == 200
BAD_REQUEST == 400
NOT_FOUND == 404

\* the name of the engine operation behind a route
EngineOp(path) ==
  IF path = ADMIN_SYNC THEN "syncAdvertisements"
  ELSE IF path = ADMIN_GASP THEN "startGASPSync"
  ELSE "lookup"

\* a route handler: it awaits the engine operation and answers 200, or 400
\* when the operation throws
RouteHandler(req, engineOk) ==
  [req |-> req, status |-> IF engineOk THEN OK ELSE BAD_REQUEST,
   calls |-> << EngineOp(req.path) >>,
   sends |-> << IF engineOk THEN OK ELSE BAD_REQUEST >>]

Answer(req, status) ==
  [req |-> req, status |-> status, calls |-> << >>, sends |-> << status >>]

SUBMIT == "/submit"
INTERNAL_ERROR == 500

\* POST /submit with an x-topics header that is missing, not JSON, or JSON
SubmitRequests ==
  [method : {"POST"}, path : {SUBMIT}, authorization : {Undefined},
   body : {"octets"}, topics : {"missing", "notJSON", "json"}]

\* the calls of res.json the try block and its catch make: 400 when x-topics
\* is missing or unparsable; else 200 from the STEAK callback when the engine
\* invokes it, then 200 after engine.submit resolved unless responseSent, or
\* 400 from the catch after it rejected
SubmitTry(req, steakReady, resolves) ==
  IF req.topics # "json" THEN << BAD_REQUEST >>
  ELSE (IF steakReady THEN << OK >> ELSE << >>)
       \o (IF ~resolves THEN << BAD_REQUEST >>
           ELSE IF steakReady THEN << >>
           ELSE << OK >>)

\* the /submit route handler: res.json throws once a response has been sent,
\* so a second call inside the catch rejects the async function and the
\* trailing .catch calls res.status(500).json; the response on the wire is
\* the first one
SubmitHandler(req, steakReady, resolves) ==
  [req |-> req,
   status |-> SubmitTry(req, steakReady, resolves)[1],
   calls |-> IF req.topics = "json" THEN << "submit" >> ELSE << >>,
   sends |-> IF Len(SubmitTry(req, steakReady, resolves)) > 1
             THEN SubmitTry(req, steakReady, resolves) \o << INTERNAL_ERROR >>
             ELSE SubmitTry(req, steakReady, resolves)]

\* the admin route: checkAdminAuth, then the handler
AdminRoute(a, req, engineOk) ==
  IF checkAdminAuth(req.authorization, a.adminToken) # 0
  THEN Answer(req, checkAdminAuth(req.authorization, a.adminToken))
  ELSE RouteHandler(req, engineOk)

\* the middleware stack in the order start() registered it: the body parser
\* answers 400 to a body it cannot parse, the CORS middleware answers 200 to
\* OPTIONS, then the first matching route, then the 404 handler
Respond(a, req, engineOk) ==
  IF req.body = "malformed" THEN Answer(req, BAD_REQUEST)
  ELSE IF req.method = "OPTIONS" THEN Answer(req, OK)
  ELSE IF req.method = "POST" /\ req.path = LOOKUP THEN RouteHandler(req, engineOk)
  ELSE IF req.method = "POST" /\ req.path \in AdminPaths
  THEN AdminRoute(a, req, engineOk)
  ELSE Answer(req, NOT_FOUND)

\* calls of start() made on one instance, and requests sent to it
MaxStarts == 2
MaxMigrations == 2
MaxRequests == 1

InitServer ==
  /\ app = NewApp(TOKEN_S)
  /\ http = NoResponse

(***************************************************************************)
(* Initial states: the first record of shipRecords has any shape and any   *)
(* down value; the records after it have an address or none, and a down    *)
(* value at either end of the range.                                       *)
(***************************************************************************)
InitDowns == {Absent, NotNumber} \cup {Num(n) : n \in 0..MaxInitDown}
\* the shapes of the records that follow the first one
PlainShapes == {[NoAddress EXCEPT !.domain = Str(A_CO)], NoAddress}

Init ==
  /\ recs \in [Ids -> Shapes]
  /\ \A i \in Ids \ {1} : recs[i] \in PlainShapes
  /\ docs = Ids
  /\ down \in [Ids -> InitDowns]
  /\ \A i \in Ids \ {1} : down[i] \in {Num(0), Num(MaxInitDown)}
  /\ budget = MaxPasses
  /\ observed = {}
  /\ origin = NoOrigin
  /\ InitSlots
  /\ InitServer

(***************************************************************************)
(* run and checkTopicOutputs                                               *)
(***************************************************************************)
Running(j) == pc[j] \notin {"idle", "done"}

\* run(): up to the first await inside checkTopicOutputs('shipRecords')
Run(j) ==
  /\ budget > 0
  /\ ~Running(j)
  /\ budget' = budget - 1
  /\ pc' = [pc EXCEPT ![j] = "fetch"]
  /\ coll' = [coll EXCEPT ![j] = Collections[1]]
  /\ outputs' = [outputs EXCEPT ![j] = << >>]
  /\ idx' = [idx EXCEPT ![j] = 0]
  /\ cur' = [cur EXCEPT ![j] = NoEval]
  /\ evaluated' = [evaluated EXCEPT ![j] = {}]
  /\ errlog' = [errlog EXCEPT ![j] = << >>]
  /\ result' = [result EXCEPT ![j] = "none"]
  /\ pre' = [pre EXCEPT ![j] = [docs |-> docs, down |-> down]]
  /\ fetches' = [fetches EXCEPT ![j] = << >>]
  /\ fetched' = [fetched EXCEPT ![j] = {}]
  /\ failed' = [failed EXCEPT ![j] = {}]
  /\ timer' = [timer EXCEPT ![j] = "off"]
  /\ issued' = [issued EXCEPT ![j] = << >>]
  /\ UNCHANGED << recs, docs, down, observed, origin, hist, serverVars >>

\* run() called by a scheduler that starts a pass only when none is in flight
RunStart(j) ==
  /\ \A k \in Slots : ~Running(k)
  /\ Run(j)

\* where run() continues when checkTopicOutputs(c) has returned
AfterCollection(c) ==
  IF c = Collections[1]
  THEN [pc |-> "fetch", coll |-> Collections[2], result |-> "none", log |-> << >>]
  ELSE [pc |-> "done", coll |-> c, result |-> "resolved", log |-> << >>]

\* the catch block of run(): log, then rethrow
RunCatch(c) ==
  [pc |-> "done", coll |-> c, result |-> "rejected", log |-> << "run" >>]

\* checkTopicOutputs rethrowing what it caught: run() logs and rejects
TopicCatch_rethrow(c) ==
  [RunCatch(c) EXCEPT !.log = << c, "run" >>]

\* checkTopicOutputs ending the pass instead of returning to run()
TopicCatch_stops(c) ==
  [pc |-> "done", coll |-> c, result |-> "resolved", log |-> << c >>]

\* the catch block of checkTopicOutputs: log, then return normally
TopicCatch(c) ==
  LET a == AfterCollection(c)
  IN  [a EXCEPT !.log = << c >>]

\* the for loop of checkTopicOutputs leaving after the first record
AfterRecord_breaks(j) == AfterCollection(coll[j])

\* where the pass continues after the record at idx[j]
AfterRecord(j) ==
  IF idx[j] < Len(outputs[j])
  THEN [pc |-> "check", coll |-> coll[j], result |-> "none", log |-> << >>]
  ELSE AfterCollection(coll[j])

Goto(j, pos) ==
  /\ pc' = [pc EXCEPT ![j] = pos.pc]
  /\ coll' = [coll EXCEPT ![j] = pos.coll]
  /\ result' = [result EXCEPT ![j] = pos.result]
  /\ errlog' = [errlog EXCEPT ![j] = @ \o pos.log]
  /\ idx' = [idx EXCEPT ![j] = IF pos.pc = "check" THEN @ + 1
                               ELSE IF pos.pc \in {"fetch", "done"} THEN 0
                               ELSE @]

\* mongoDb.collection(name).find({}).toArray() resolves
FetchOk(j) ==
  /\ pc[j] = "fetch"
  /\ outputs' = [outputs EXCEPT ![j] = FindAll(coll[j])]
  /\ IF FindAll(coll[j]) = << >>
     THEN Goto(j, AfterCollection(coll[j]))
     ELSE /\ pc' = [pc EXCEPT ![j] = "check"]
          /\ idx' = [idx EXCEPT ![j] = 1]
          /\ UNCHANGED << coll, result, errlog >>
  /\ fetches' = [fetches EXCEPT ![j] = Append(@, [coll |-> coll[j], ok |-> TRUE])]
  /\ fetched' = [fetched EXCEPT ![j] = @ \cup (IdsOf(coll[j]) \cap docs)]
  /\ UNCHANGED << recs, docs, down, budget, cur, evaluated, pre, failed,
                  timer, issued, observed, origin, hist, serverVars >>

\* mongoDb.collection(name) or toArray() throws
FetchFail(j) ==
  /\ pc[j] = "fetch"
  /\ outputs' = [outputs EXCEPT ![j] = << >>]
  /\ Goto(j, TopicCatch(coll[j]))
  /\ fetches' = [fetches EXCEPT ![j] = Append(@, [coll |-> coll[j], ok |-> FALSE])]
  /\ UNCHANGED << recs, docs, down, budget, cur, evaluated, pre, fetched,
                  failed, timer, issued, observed, origin, hist, serverVars >>

(***************************************************************************)
(* checkOutput                                                             *)
(***************************************************************************)
Output(j) == outputs[j][idx[j]]

\* checkOutput probing an address that failed validation
Route_probesInvalid(url) ==
  IF url = Null THEN "skip" ELSE "probe"

\* checkOutput counting a record without an address as a failure
Route_skipIsFailure(url) ==
  IF url = Null THEN "invalid"
  ELSE IF ~isValidDomain(url.v) THEN "invalid"
  ELSE IF ~HealthURL(url.v).ok THEN "noHealthURL"
  ELSE "probe"

\* the branch checkOutput takes for the extracted url
Route(url) ==
  IF url = Null THEN "skip"
  ELSE IF ~isValidDomain(url.v) THEN "invalid"
  ELSE IF ~HealthURL(url.v).ok THEN "noHealthURL"
  ELSE "probe"

\* per record shape: the extracted url, the branch checkOutput takes for it,
\* and the ways the fetch of its health URL can settle
ExtractedURL == [s \in Shapes |-> extractURLFromOutput(s)]
RouteOf == [s \in Shapes |-> Route(ExtractedURL[s])]
OutcomesOf ==
  [s \in Shapes |->
     OutcomesFor(IF ExtractedURL[s] = Null THEN URLFailure
                 ELSE HealthURL(ExtractedURL[s].v))]

\* checkOutput up to its first await: extraction and validation, and for a
\* valid address checkHealthEndpoint up to its await of fetch, with the
\* timer set
CheckOutput(j) ==
  /\ pc[j] = "check"
  /\ LET output == Output(j)
         url    == ExtractedURL[recs[output.id]]
         route  == RouteOf[recs[output.id]]
         start  == [NoEval EXCEPT !.id = output.id, !.fetched = output.down,
                                  !.url = url]
     IN  /\ evaluated' = [evaluated EXCEPT ![j] = @ \cup {output.id}]
         /\ timer' = [timer EXCEPT ![j] = IF route = "probe" THEN "armed" ELSE "off"]
         /\ IF route = "skip"
            THEN /\ cur' = [cur EXCEPT ![j] = [start EXCEPT !.verdict = "skipped"]]
                 /\ Goto(j, AfterRecord(j))
            ELSE IF route = "invalid"
            THEN /\ cur' = [cur EXCEPT ![j] =
                       [start EXCEPT !.verdict = "unhealthy",
                                     !.log = << "invalidDomain" >>]]
                 /\ pc' = [pc EXCEPT ![j] = "unhealthy"]
                 /\ UNCHANGED << coll, result, errlog, idx >>
            ELSE IF route = "noHealthURL"
            THEN /\ cur' = [cur EXCEPT ![j] =
                       [start EXCEPT !.valid = TRUE, !.verdict = "unhealthy"]]
                 /\ pc' = [pc EXCEPT ![j] = "unhealthy"]
                 /\ UNCHANGED << coll, result, errlog, idx >>
            ELSE /\ cur' = [cur EXCEPT ![j] = [start EXCEPT !.valid = TRUE]]
                 /\ pc' = [pc EXCEPT ![j] = "probe"]
                 /\ UNCHANGED << coll, result, errlog, idx >>
  /\ UNCHANGED << recs, docs, down, budget, outputs, pre, fetches, fetched,
                  failed, issued, observed, origin, hist, serverVars >>

\* checkHealthEndpoint returns for outcome o: clearTimeout, the log line of
\* the inner catch, and the boolean checkOutput branches on
CheckReturns(j, o) ==
  /\ cur' = [cur EXCEPT ![j] =
        [@ EXCEPT !.probed = TRUE,
                  !.outcome = o,
                  !.verdict = IF IsHealthy(o) THEN "healthy" ELSE "unhealthy",
                  !.log = @ \o ProbeLog(o)]]
  /\ pc' = [pc EXCEPT ![j] = IF IsHealthy(o) THEN "healthy" ELSE "unhealthy"]
  /\ failed' = [failed EXCEPT ![j] =
        IF ProbeErrored(o) THEN @ \cup {cur[j].id} ELSE @]
  /\ timer' = [timer EXCEPT ![j] = "off"]
  /\ UNCHANGED << recs, docs, down, budget, coll, outputs, idx, evaluated,
                  errlog, result, pre, fetches, fetched, issued,
                  observed, origin, hist, serverVars >>

\* fetch(healthURL) settles before the timer fires: clearTimeout, then either
\* the check returns or it goes on to await response.json()
Probe(j) ==
  /\ pc[j] = "probe"
  /\ \E o \in OutcomesOf[recs[cur[j].id]] :
       IF ReadsBody(o)
       THEN /\ cur' = [cur EXCEPT ![j] = [@ EXCEPT !.probed = TRUE, !.outcome = o]]
            /\ pc' = [pc EXCEPT ![j] = "body"]
            /\ timer' = [timer EXCEPT ![j] = "off"]
            /\ UNCHANGED << recs, docs, down, budget, coll, outputs, idx,
                            evaluated, errlog, result, pre, fetches, fetched,
                            failed, issued, observed, origin, hist, serverVars >>
       ELSE CheckReturns(j, o)

\* the timer fires while fetch is pending: controller.abort() rejects fetch
\* with an AbortError
ProbeTimeout(j) ==
  /\ pc[j] = "probe"
  /\ timer[j] = "armed"
  /\ CheckReturns(j, AbortError)

\* response.json() settles
ReadBody(j) ==
  /\ pc[j] = "body"
  /\ CheckReturns(j, cur[j].outcome)

\* the history with the verdict of an evaluation of record id added
Record(id, verdict) ==
  IF id \in observed THEN [hist EXCEPT ![id] = Append(@, verdict)] ELSE hist

\* typeof output.down === 'number' ? output.down : 0
CurrentDown(d) == IF d.t = "number" THEN d.n ELSE 0

\* handleHealthyOutput decrementing whatever the counter holds
HealthyOp_always(currentDown) == "updateOne"

\* handleHealthyOutput with the floor off by one
HealthyOp_geq(currentDown) == IF currentDown >= 0 THEN "updateOne" ELSE "none"

\* the store call handleHealthyOutput makes
HealthyOp(currentDown) == IF currentDown > 0 THEN "updateOne" ELSE "none"

\* handleUnhealthyOutput with a strict comparison against the threshold
UnhealthyOp_strict(currentDown) ==
  IF currentDown + 1 > hostDownRevokeScore THEN "deleteOne" ELSE "updateOne"

\* handleUnhealthyOutput comparing the fetched counter, not the new one
UnhealthyOp_early(currentDown) ==
  IF currentDown + 1 >= hostDownRevokeScore - 1 THEN "deleteOne" ELSE "updateOne"

\* the store call handleUnhealthyOutput makes
UnhealthyOp(currentDown) ==
  IF currentDown + 1 >= hostDownRevokeScore THEN "deleteOne" ELSE "updateOne"

\* whether the store can acknowledge the call, whether it can reject it
CanResolve(op, id) == op = "deleteOne" \/ ~IncRejects(id)

Call(op, id, delta, ok) == [op |-> op, id |-> id, delta |-> delta, ok |-> ok]

\* a rejected store call escaping to the catch block of checkTopicOutputs
HandlerCatch_propagates(j) == TopicCatch(coll[j])

\* a rejected store call escaping to the catch block of checkOutput, which
\* calls handleUnhealthyOutput for the record
HandlerCatch_retries(j) ==
  [pc |-> "unhealthy", coll |-> coll[j], result |-> "none", log |-> << >>]

\* a rejected store call escaping every catch block but that of run()
HandlerCatch_throws(j) == RunCatch(coll[j])

\* where the pass continues when a store call rejects: the catch blocks of
\* handleHealthyOutput and handleUnhealthyOutput log and return normally
HandlerCatch(j) == AfterRecord(j)

\* handleHealthyOutput
HandleHealthyOutput(j) ==
  /\ pc[j] = "healthy"
  /\ LET id == cur[j].id
         op == HealthyOp(CurrentDown(cur[j].fetched))
     IN  IF op = "updateOne"
         THEN \E ok \in BOOLEAN :
                /\ ok => CanResolve(op, id)
                /\ docs' = IF ok THEN IncDocs(id) ELSE docs
                /\ down' = IF ok THEN IncDown(id, -1) ELSE down
                /\ cur' = [cur EXCEPT ![j] =
                      [@ EXCEPT !.ops = @ \o << Call(op, id, -1, ok) >>,
                                !.log = @ \o << IF ok THEN "healthy" ELSE "error" >>]]
                /\ issued' = [issued EXCEPT ![j] = Append(@, Call(op, id, -1, ok))]
                /\ failed' = [failed EXCEPT ![j] = IF ok THEN @ ELSE @ \cup {id}]
                /\ Goto(j, IF ok THEN AfterRecord(j) ELSE HandlerCatch(j))
         ELSE /\ UNCHANGED << docs, down, cur, issued, failed >>
              /\ Goto(j, AfterRecord(j))
  /\ hist' = Record(cur[j].id, "H")
  /\ UNCHANGED << recs, budget, outputs, evaluated, pre, fetches, fetched,
                  timer, observed, origin, serverVars >>

\* handleUnhealthyOutput
HandleUnhealthyOutput(j) ==
  /\ pc[j] = "unhealthy"
  /\ LET id == cur[j].id
         op == UnhealthyOp(CurrentDown(cur[j].fetched))
     IN  \E ok \in BOOLEAN :
           /\ ok => CanResolve(op, id)
           /\ IF op = "deleteOne"
              THEN /\ docs' = IF ok THEN docs \ {id} ELSE docs
                   /\ down' = IF ok THEN [down EXCEPT ![id] = Absent] ELSE down
                   /\ cur' = [cur EXCEPT ![j] =
                         [@ EXCEPT !.ops = @ \o << Call(op, id, 0, ok) >>,
                                   !.log = @ \o << "unhealthy", "deleting",
                                                   IF ok THEN "deleted" ELSE "error" >>]]
                   /\ issued' = [issued EXCEPT ![j] = Append(@, Call(op, id, 0, ok))]
              ELSE /\ docs' = IF ok THEN IncDocs(id) ELSE docs
                   /\ down' = IF ok THEN IncDown(id, 1) ELSE down
                   /\ cur' = [cur EXCEPT ![j] =
                         [@ EXCEPT !.ops = @ \o << Call(op, id, 1, ok) >>,
                                   !.log = IF ok THEN @ \o << "unhealthy" >>
                                           ELSE @ \o << "unhealthy", "error" >>]]
                   /\ issued' = [issued EXCEPT ![j] = Append(@, Call(op, id, 1, ok))]
           /\ failed' = [failed EXCEPT ![j] = IF ok THEN @ ELSE @ \cup {id}]
           /\ Goto(j, IF ok THEN AfterRecord(j) ELSE HandlerCatch(j))
  /\ hist' = Record(cur[j].id, "U")
  /\ UNCHANGED << recs, budget, outputs, evaluated, pre, fetches, fetched,
                  timer, observed, origin, serverVars >>

\* the steps of one invocation after run() was called
Sweep(j) ==
  \/ FetchOk(j)
  \/ FetchFail(j)
  \/ CheckOutput(j)
  \/ Probe(j)
  \/ ProbeTimeout(j)
  \/ ReadBody(j)
  \/ HandleHealthyOutput(j)
  \/ HandleUnhealthyOutput(j)

Step(j) ==
  \/ RunStart(j)
  \/ Sweep(j)

Next == \E j \in SeqSlots : Step(j)

Spec == Init /\ [][Next]_vars

(***************************************************************************)
(* Overlapping invocations of run(): a scheduler that does not wait for    *)
(* the pass in flight. Two records, each with a valid address.             *)
(***************************************************************************)
MaxOverlap == 2
Addressed == [NoAddress EXCEPT !.domain = Str(A_CO)]

InitOverlap ==
  /\ recs = [i \in Ids |-> Addressed]
  /\ docs = {1, 3}
  /\ down \in [Ids -> {Absent} \cup {Num(n) : n \in 0..MaxInitDown}]
  /\ \A i \in Ids : down[i] = Absent <=> i \notin docs
  /\ budget = MaxOverlap
  /\ observed = {}
  /\ origin = down
  /\ InitSlots
  /\ InitServer

NextOverlap == \E j \in Slots : Run(j) \/ Sweep(j)

SpecOverlap == InitOverlap /\ [][NextOverlap]_vars

(***************************************************************************)
(* One record that starts at down = 0, swept by consecutive passes.        *)
(***************************************************************************)
MaxStreakPasses == 5

InitStreak ==
  /\ recs = [i \in Ids |-> Addressed]
  /\ docs = {1}
  /\ down = [i \in Ids |-> IF i = 1 THEN Num(0) ELSE Absent]
  /\ budget = MaxStreakPasses
  /\ observed = {1}
  /\ origin = NoOrigin
  /\ InitSlots
  /\ InitServer

SpecStreak == InitStreak /\ [][Next]_vars

(***************************************************************************)
(* One record swept by consecutive passes over a store that acknowledges   *)
(* every increment, decrement and delete.                                  *)
(***************************************************************************)
MaxEvictPasses == 4
MaxEvictDown == 4

\* the store calls slot j has issued were all acknowledged
Acknowledged(j) == \A k \in 1..Len(issued[j]) : issued[j][k].ok

\* a record whose address does not parse
Misaddressed == [NoAddress EXCEPT !.url = Str(BAD_HOST), !.serviceURL = Str(A_CO)]

InitEvict ==
  /\ recs \in [Ids -> {Addressed, Misaddressed}]
  /\ \A i \in Ids \ {1} : recs[i] = Addressed
  /\ docs = {1}
  /\ down \in [Ids -> {Absent} \cup {Num(n) : n \in 0..MaxEvictDown}]
  /\ \A i \in Ids : down[i] = Absent <=> i \notin docs
  /\ budget = MaxEvictPasses
  /\ observed = {1}
  /\ origin = down
  /\ InitSlots
  /\ InitServer

NextEvict ==
  \E j \in SeqSlots :
    \/ RunStart(j)
    \/ FetchOk(j)
    \/ FetchFail(j)
    \/ CheckOutput(j)
    \/ Probe(j)
    \/ ProbeTimeout(j)
    \/ ReadBody(j)
    \/ HandleHealthyOutput(j) /\ Acknowledged(j)'
    \/ HandleUnhealthyOutput(j) /\ Acknowledged(j)'

SpecEvict == InitEvict /\ [][NextEvict]_vars

(***************************************************************************)
(* Passes whose awaited calls all settle: the event loop resumes run()     *)
(* whenever the store call or the probe it awaits has settled.             *)
(***************************************************************************)
MaxLivePasses == 1

InitLive ==
  /\ recs \in [Ids -> Shapes]
  /\ \A i \in Ids \ {1} : recs[i] = Addressed
  /\ docs = Ids
  /\ down \in [Ids -> {Num(0), Num(MaxInitDown)}]
  /\ down[2] = Num(0) /\ down[3] = Num(MaxInitDown)
  /\ budget = MaxLivePasses
  /\ observed = {}
  /\ origin = NoOrigin
  /\ InitSlots
  /\ InitServer

SpecLive == InitLive /\ [][Next]_vars /\ WF_vars(Next)

(***************************************************************************)
(* OverlayExpress: configuration, start() and the requests it serves. The   *)
(* databases and the engine are configured before the server listens, the  *)
(* options before start() is first called.                                 *)
(***************************************************************************)
\* configureKnex
ConfigureKnex ==
  /\ ~app.listening
  /\ app' = [app EXCEPT !.knex = TRUE]
  /\ UNCHANGED << http, janitorVars >>

\* configureMongo
ConfigureMongo ==
  /\ ~app.listening
  /\ app' = [app EXCEPT !.mongoDb = TRUE]
  /\ UNCHANGED << http, janitorVars >>

\* the names a caller registers lookup services under
\* a call of configureLookupServiceWithKnex
ConfigureLookupServiceWithKnex ==
  /\ app.starts = 0
  /\ Len(app.migrationsToRun) < MaxMigrations
  /\ app' = configureLookupServiceWithKnex(app, "ls_knex")
  /\ UNCHANGED << http, janitorVars >>

\* a call of configureLookupServiceWithMongo
ConfigureLookupServiceWithMongo ==
  /\ app.starts = 0
  /\ app' = configureLookupServiceWithMongo(app, "ls_mongo")
  /\ UNCHANGED << http, janitorVars >>

\* a call of configureEngine(autoConfigureShipSlap)
ConfigureEngine ==
  /\ ~app.listening
  /\ Len(app.migrationsToRun) < MaxMigrations
  /\ \E autoConfigureShipSlap \in BOOLEAN :
       app' = configureEngine(app, autoConfigureShipSlap)
  /\ UNCHANGED << http, janitorVars >>

\* instance.engine = engine: the field is public
AssignEngine ==
  /\ ~app.listening
  /\ app' = [app EXCEPT !.engine = TRUE,
                        !.last = Called(app, "engine", FALSE, 0)]
  /\ UNCHANGED << http, janitorVars >>

\* configureArcApiKey
ConfigureArcApiKey ==
  /\ app.starts = 0
  /\ app' = [app EXCEPT !.arcApiKey = TRUE]
  /\ UNCHANGED << http, janitorVars >>

\* configureEnableGASPSync
ConfigureEnableGASPSync ==
  /\ app.starts = 0
  /\ \E enable \in BOOLEAN : app' = [app EXCEPT !.enableGASPSync = enable]
  /\ UNCHANGED << http, janitorVars >>

\* configureVerboseRequestLogging
ConfigureVerboseRequestLogging ==
  /\ app.starts = 0
  /\ \E enable \in BOOLEAN : app' = [app EXCEPT !.verboseRequestLogging = enable]
  /\ UNCHANGED << http, janitorVars >>

\* the event start() leaves for an awaited engine call
Settled(call, ok) == IF ok THEN call ELSE call \o ":rejected"

\* start() letting the rejection of a startup sync escape
SyncCatch_rethrows(ok) == IF ok THEN "continue" ELSE "reject"

\* the try/catch around each of the two startup syncs: the error is logged and
\* start() goes on
SyncCatch(ok) == "continue"

\* the end of start(): syncAdvertisements, startGASPSync when GASP sync is
\* enabled, app.listen
Startup(a, syncOk, gaspOk) ==
  IF SyncCatch(syncOk) = "reject"
  THEN [a EXCEPT !.events = @ \o << Settled("syncAdvertisements", syncOk) >>,
                 !.started = "rejected"]
  ELSE IF ~a.enableGASPSync
  THEN [a EXCEPT !.events = @ \o << Settled("syncAdvertisements", syncOk),
                                    "listen" >>,
                 !.listening = TRUE,
                 !.started = "resolved"]
  ELSE IF SyncCatch(gaspOk) = "reject"
  THEN [a EXCEPT !.events = @ \o << Settled("syncAdvertisements", syncOk),
                                    Settled("startGASPSync", gaspOk) >>,
                 !.started = "rejected"]
  ELSE [a EXCEPT !.events = @ \o << Settled("syncAdvertisements", syncOk),
                                    Settled("startGASPSync", gaspOk),
                                    "listen" >>,
                 !.listening = TRUE,
                 !.started = "resolved"]

\* start(): the two ensure calls, the registrations, knex.migrate.latest, the
\* 404 handler, advertiser.init, the two syncs (their errors are caught) and
\* app.listen
Start ==
  /\ app.started # "resolved"
  /\ app.starts < MaxStarts
  /\ LET called == [app EXCEPT !.starts = @ + 1,
                               !.events = << >>,
                               !.atStart = [engine |-> app.engine, knex |-> app.knex]]
     IN  IF Ensure(app) # "none"
         THEN app' = [called EXCEPT !.started = "rejected"]
         ELSE \E outcome \in {"ok", "migrateFails", "initFails"} :
              \E syncOk \in BOOLEAN : \E gaspOk \in BOOLEAN :
                /\ ~app.knex => outcome = "migrateFails"
                /\ app' =
                     IF outcome = "migrateFails"
                     THEN [called EXCEPT !.stack = @ \o Registered(app),
                                         !.migrations = "failed",
                                         !.events = << Settled("migrate", FALSE) >>,
                                         !.started = "rejected"]
                     ELSE IF outcome = "initFails"
                     THEN [called EXCEPT !.stack = @ \o Registered(app) \o << "404" >>,
                                         !.migrations = "run",
                                         !.events = << "migrate",
                                                       Settled("init", FALSE) >>,
                                         !.started = "rejected"]
                     ELSE Startup([called EXCEPT
                                     !.stack = @ \o Registered(app) \o << "404" >>,
                                     !.migrations = "run",
                                     !.events = << "migrate" >>],
                                  syncOk, gaspOk)
  /\ UNCHANGED << http, janitorVars >>

\* the app answers a request
Request ==
  /\ app.listening
  /\ app.served < MaxRequests
  /\ \E req \in Requests : \E engineOk \in BOOLEAN :
       http' = Respond(app, req, engineOk)
  /\ app' = [app EXCEPT !.served = @ + 1]
  /\ UNCHANGED janitorVars

\* the app answers a POST /submit: the body parsers and the CORS middleware
\* pass it on to the route
Submit ==
  /\ app.listening
  /\ app.served < MaxRequests
  /\ \E req \in SubmitRequests :
     \E steakReady \in BOOLEAN : \E resolves \in BOOLEAN :
       http' = SubmitHandler(req, steakReady, resolves)
  /\ app' = [app EXCEPT !.served = @ + 1]
  /\ UNCHANGED janitorVars

InitOverlayExpress ==
  /\ recs = [i \in Ids |-> NoAddress]
  /\ docs = {}
  /\ down = [i \in Ids |-> Absent]
  /\ budget = 0
  /\ observed = {}
  /\ origin = NoOrigin
  /\ InitSlots
  /\ app \in {[NewApp(AdminTokenOf(arg, g)) EXCEPT !.last = Unrecorded] :
                arg \in AdminTokenArgs, g \in GeneratedTokens}
  /\ http = NoResponse

InitConfigure ==
  /\ recs = [i \in Ids |-> NoAddress]
  /\ docs = {}
  /\ down = [i \in Ids |-> Absent]
  /\ budget = 0
  /\ observed = {}
  /\ origin = NoOrigin
  /\ InitSlots
  /\ app \in {NewApp(AdminTokenOf(arg, g)) :
                arg \in AdminTokenArgs, g \in GeneratedTokens}
  /\ http = NoResponse

NextOverlayExpress ==
  \/ ConfigureKnex
  \/ ConfigureMongo
  \/ ConfigureEngine
  \/ AssignEngine
  \/ ConfigureArcApiKey
  \/ ConfigureEnableGASPSync
  \/ ConfigureVerboseRequestLogging
  \/ Start
  \/ Request
  \/ Submit

SpecOverlayExpress == InitOverlayExpress /\ [][NextOverlayExpress]_vars

\* the configuration calls a caller makes before start()
NextConfigure ==
  \/ ConfigureKnex
  \/ ConfigureMongo
  \/ ConfigureLookupServiceWithKnex
  \/ ConfigureLookupServiceWithMongo
  \/ ConfigureEngine
  \/ AssignEngine

SpecConfigure == InitConfigure /\ [][NextConfigure]_vars

(***************************************************************************)
(* Properties.                                                             *)
(***************************************************************************)
\* the evaluation of the current record of slot j has applied its transition
Handled(j) ==
  /\ cur[j].verdict \in {"healthy", "unhealthy"}
  /\ pc[j] \notin {"probe", "body", "healthy", "unhealthy"}

\* the store calls of evaluation e are those of the unhealthy transition:
\* one delete at the threshold, one increment of +1 below it
UnhealthyTransition(e) ==
  /\ Len(e.ops) = 1
  /\ e.ops[1].id = e.id
  /\ IF CurrentDown(e.fetched) + 1 >= hostDownRevokeScore
     THEN e.ops[1].op = "deleteOne"
     ELSE e.ops[1].op = "updateOne" /\ e.ops[1].delta = 1

\* C1: a record evaluated as unhealthy, with d its fetched down (0 when absent
\* or not a number), gets exactly one delete and no increment when
\* d + 1 >= hostDownRevokeScore, and exactly one increment of +1 and no delete
\* otherwise; nothing is issued before the transition is applied.
C1_EvictionThreshold ==
  \A j \in Slots :
    cur[j].verdict = "unhealthy" =>
      IF Handled(j) THEN UnhealthyTransition(cur[j]) ELSE cur[j].ops = << >>

C1_Witness ==
  \E j \in Slots :
    /\ Handled(j)
    /\ cur[j].verdict = "unhealthy"
    /\ cur[j].fetched = Num(hostDownRevokeScore - 1)
    /\ cur[j].ops = << Call("deleteOne", cur[j].id, 0, TRUE) >>
    /\ cur[j].id \notin docs

\* C2: a record evaluated as healthy gets exactly one decrement of 1 when its
\* fetched down is > 0, and no store write at all when it is 0 or absent.
C2_HealthyOutcome ==
  \A j \in Slots :
    (cur[j].verdict = "healthy" /\ Handled(j)) =>
      IF cur[j].fetched.t = "number" /\ cur[j].fetched.n > 0
      THEN /\ Len(cur[j].ops) = 1
           /\ cur[j].ops[1].op = "updateOne"
           /\ cur[j].ops[1].id = cur[j].id
           /\ cur[j].ops[1].delta = -1
      ELSE /\ cur[j].ops = << >>
           /\ cur[j].id \in docs
           /\ down[cur[j].id] = cur[j].fetched

C2_Witness ==
  \E j \in Slots :
    /\ Handled(j)
    /\ cur[j].verdict = "healthy"
    /\ cur[j].fetched = Num(1)
    /\ cur[j].ops = << Call("updateOne", cur[j].id, -1, TRUE) >>
    /\ down[cur[j].id] = Num(0)

\* C3: the store starts with every numeric down >= 0; after any sequence of
\* non-overlapping passes with any mix of outcomes, every surviving record's
\* stored down is >= 0.
C3_DownNeverNegative ==
  \A i \in docs : down[i].t = "number" => down[i].n >= 0

C3_Witness ==
  /\ budget = 0
  /\ pc[1] = "done"
  /\ \E i \in docs : pre[1].down[i] = Num(1) /\ down[i] = Num(0)
  /\ \E i \in docs : pre[1].down[i] = Num(0) /\ down[i] = Num(1)

\* C4: a probe is classified healthy exactly when the response has a success
\* status, its body parses and the body's status is "ok"; every other probe
\* result leads to the unhealthy transition and never to a decrement.
C4_HealthyIffOkStatus ==
  \A j \in Slots :
    (cur[j].probed /\ pc[j] # "body") =>
      /\ cur[j].verdict \in {"healthy", "unhealthy"}
      /\ cur[j].verdict = "healthy" <=>
           /\ cur[j].outcome.fetch = "response"
           /\ cur[j].outcome.ok
           /\ cur[j].outcome.body \notin {"unparsable", "none"}
           /\ cur[j].outcome.body = "statusOk"
      /\ cur[j].verdict = "unhealthy" =>
           /\ pc[j] # "healthy"
           /\ Handled(j) => UnhealthyTransition(cur[j])

C4_Witness ==
  \E j \in Slots :
    /\ cur[j].probed
    /\ cur[j].outcome = Response(FALSE, "statusOk")
    /\ Handled(j)
    /\ cur[j].ops = << Call("updateOne", cur[j].id, 1, TRUE) >>

\* C5: a record whose extracted address fails validation is never probed and
\* gets exactly the unhealthy transition.
C5_InvalidAddressUnhealthy ==
  \A j \in Slots :
    (cur[j].id # 0 /\ cur[j].url # Null /\ ~isValidDomain(cur[j].url.v)) =>
      /\ ~cur[j].probed
      /\ cur[j].outcome = NoOutcome
      /\ pc[j] \notin {"probe", "healthy"}
      /\ cur[j].verdict = "unhealthy"
      /\ IF Handled(j) THEN UnhealthyTransition(cur[j]) ELSE cur[j].ops = << >>

C5_Witness ==
  \E j \in Slots :
    /\ cur[j].url = Str(BAD_HOST)
    /\ Handled(j)
    /\ ~cur[j].probed
    /\ cur[j].ops = << Call("updateOne", cur[j].id, 1, TRUE) >>

\* no string domain, url or serviceURL, and no protocols entry that starts
\* with https://
NoRecognizedAddress(rec) ==
  /\ rec.domain.t # "string"
  /\ rec.url.t # "string"
  /\ rec.serviceURL.t # "string"
  /\ rec.protocols.t = "array" =>
       \A k \in 1..Len(rec.protocols.v) :
         ~(rec.protocols.v[k].t = "string"
             /\ StartsWith(rec.protocols.v[k].v, HTTPS_PREFIX))

\* C6: a record with no recognized address causes no probe and no store
\* mutation in the pass; its stored state is the same as when the pass began.
C6_NoAddressNoEffect ==
  \A j \in Slots : \A i \in Ids :
    (pc[j] # "idle" /\ NoRecognizedAddress(recs[i])) =>
      /\ i \in docs <=> i \in pre[j].docs
      /\ down[i] = pre[j].down[i]
      /\ cur[j].id = i =>
           /\ cur[j].verdict = "skipped"
           /\ ~cur[j].probed
           /\ cur[j].ops = << >>
           /\ pc[j] \notin {"probe", "healthy", "unhealthy"}

C6_Witness ==
  \E j \in Slots : \E i \in evaluated[j] :
    /\ pc[j] = "done"
    /\ recs[i].protocols = Arr(<< Str(WSS_X), Str(A_CO) >>)
    /\ cur[j].id # i
    /\ i \in docs

\* the string fields in priority order, then the https:// entries of protocols
Candidates(rec) ==
  SelectSeq(<< rec.domain, rec.url, rec.serviceURL >>,
            LAMBDA f : f.t = "string")
    \o (IF rec.protocols.t = "array"
        THEN SelectSeq(rec.protocols.v,
                       LAMBDA f : f.t = "string" /\ StartsWith(f.v, HTTPS_PREFIX))
        ELSE << >>)

\* C7: the address used for a record is the first present one in the order
\* domain, url, serviceURL, first https:// entry of protocols; when it is
\* invalid the record is treated as unhealthy without a probe, whatever the
\* lower-priority fields hold.
C7_PriorityExtraction ==
  \A j \in Slots :
    cur[j].id # 0 =>
      /\ cur[j].url = IF Candidates(recs[cur[j].id]) = << >> THEN Null
                      ELSE Head(Candidates(recs[cur[j].id]))
      /\ (cur[j].url # Null /\ ~isValidDomain(cur[j].url.v)) =>
           cur[j].verdict = "unhealthy" /\ ~cur[j].probed

C7_Witness ==
  \E j \in Slots :
    /\ cur[j].id # 0
    /\ recs[cur[j].id].domain = Str(BAD_HOST)
    /\ recs[cur[j].id].protocols = Arr(<< Str(HTTPS_A_CO) >>)
    /\ isValidDomain(HTTPS_A_CO)
    /\ cur[j].url = Str(BAD_HOST)
    /\ Handled(j)
    /\ cur[j].verdict = "unhealthy"

\* C8: within one collection sweep a failure while evaluating a record (a
\* probe error or a rejected store call) never prevents a later record of the
\* same collection from being evaluated in the same pass.
C8_RecordIsolation ==
  \A j \in Slots :
    /\ (pc[j] = "done" \/ (pc[j] # "idle" /\ coll[j] = Collections[2])) =>
         (fetched[j] \cap ShipIds) \subseteq evaluated[j]
    /\ pc[j] = "done" => fetched[j] \subseteq evaluated[j]
    /\ pc[j] \in {"probe", "healthy", "unhealthy"} =>
         {outputs[j][k].id : k \in 1..idx[j]} \subseteq evaluated[j]

C8_Witness ==
  \E j \in Slots :
    /\ pc[j] = "done"
    /\ {1, 2} \subseteq fetched[j]
    /\ 1 \in failed[j]
    /\ 2 \in evaluated[j]

FailedFetches(j) == SelectSeq(fetches[j], LAMBDA f : ~f.ok)

C11_TimeoutIsUnhealthy ==
  \A j \in Slots :
    cur[j].outcome = AbortError =>
      /\ cur[j].verdict = "unhealthy"
      /\ pc[j] \notin {"body", "healthy"}
      /\ cur[j].log # << >> /\ cur[j].log[1] = "timeout"
      /\ IF Handled(j)
         THEN /\ UnhealthyTransition(cur[j])
              /\ Len(cur[j].log) >= 2 /\ cur[j].log[2] = "unhealthy"
         ELSE cur[j].ops = << >> /\ cur[j].log = << "timeout" >>

C11_Witness ==
  \E j \in Slots :
    /\ cur[j].outcome = AbortError
    /\ Handled(j)
    /\ cur[j].fetched = Num(hostDownRevokeScore - 1)
    /\ cur[j].ops = << Call("deleteOne", cur[j].id, 0, TRUE) >>
    /\ cur[j].log = << "timeout", "unhealthy", "deleting", "deleted" >>

\* C12 as stated: a health check is covered by the timeout for as long as it
\* is outstanding, both while fetch is pending and while the body is read.
C12_CheckBoundedByTimeout ==
  \A j \in Slots : pc[j] \in {"probe", "body"} => timer[j] = "armed"

\* number of entries of h equal to v
RECURSIVE Count(_, _)
Count(h, v) ==
  IF h = << >> THEN 0
  ELSE (IF Head(h) = v THEN 1 ELSE 0) + Count(Tail(h), v)

\* the record was in the store and the Janitor deleted it
Evicted(i) == i \in observed /\ hist[i] # << >> /\ i \notin docs

C14_NeverCreates ==
  [][/\ \A k \in 1..Len(Collections) :
          (IdsOf(Collections[k]) \cap docs') \subseteq (IdsOf(Collections[k]) \cap docs)
     /\ \A i \in docs' : recs'[i] = recs[i]]_vars

C14_Witness ==
  \E j \in Slots :
    /\ cur[j].ops = << Call("updateOne", cur[j].id, -1, TRUE) >>
    /\ cur[j].id \in pre[j].docs
    /\ cur[j].id \notin docs
    /\ down[cur[j].id] = Absent

\* slot j takes the step that starts the evaluation of a record
StartsEvaluation(j) ==
  /\ pc[j] = "check"
  /\ pc'[j] # pc[j] \/ idx'[j] # idx[j]

\* C15: within one pass a record is evaluated at most once, and no store call
\* (decrement, increment or delete) is issued for an id for which the pass
\* has already issued one.
C15_OncePerPass ==
  [][\A j \in Slots :
       /\ StartsEvaluation(j) => Output(j).id \notin evaluated[j]
       /\ Len(issued'[j]) > Len(issued[j]) =>
            \A k \in 1..Len(issued[j]) :
              issued[j][k].id # issued'[j][Len(issued'[j])].id]_vars

C15_Witness ==
  \E j \in Slots :
    /\ pc[j] = "done"
    /\ evaluated[j] = Ids
    /\ Len(issued[j]) = Cardinality(Ids)
    /\ issued[j][1] = Call("deleteOne", 1, 0, TRUE)

\* an address that is a bare host name
Schemeless(s) == s # << >> /\ AllIn(s, Alnums \cup {".", "-"})

\* a fully-qualified domain name, localhost, or a dotted quad of octets
ValidHostname(s) ==
  \/ domainRegex(SplitDots(s))
  \/ localhostRegex(s)
  \/ /\ ipv4Regex(SplitDots(s))
     /\ \A k \in 1..4 : DecVal(SplitDots(s)[k]) <= 255

\* C16 as stated: every address without a scheme whose host name is a valid
\* domain name, localhost or a dotted-quad IPv4 is judged valid and probed.
C16_SchemelessDefaultsToHttps ==
  \A j \in Slots :
    (cur[j].id # 0 /\ cur[j].url # Null /\ Schemeless(cur[j].url.v)
       /\ ValidHostname(cur[j].url.v)) =>
      /\ cur[j].valid
      /\ pc[j] = "probe" \/ cur[j].probed

AdminRequest == http.req.method = "POST" /\ http.req.path \in AdminPaths

BearerHeader(h) == h.t = "string" /\ StartsWith(h.v, BEARER)

\* C18 as stated: the engine operation of an admin route is invoked only when
\* the Authorization header is "Bearer " followed by the admin token; a missing
\* or non-Bearer header yields 401, a Bearer header with another token 403.
C18_AdminAuthExact ==
  AdminRequest =>
    /\ http.calls # << >> =>
         http.req.authorization = Str(BEARER \o app.adminToken)
    /\ ~BearerHeader(http.req.authorization) =>
         http.status = UNAUTHORIZED /\ http.calls = << >>
    /\ (BearerHeader(http.req.authorization)
          /\ http.req.authorization # Str(BEARER \o app.adminToken)) =>
         http.status = FORBIDDEN /\ http.calls = << >>

\* C18 amended: the engine operation of an admin route is invoked only when
\* the Authorization header is "Bearer " followed by the admin token; of the
\* requests the body parser lets through, one with a missing or non-Bearer
\* header is answered 401 and one with another Bearer token 403; a request
\* whose body does not parse is answered 400 before the token is looked at;
\* none of these invokes the engine operation.
C18_AdminAuthAfterBodyParser ==
  AdminRequest =>
    /\ http.calls # << >> =>
         /\ http.req.authorization = Str(BEARER \o app.adminToken)
         /\ http.calls = << EngineOp(http.req.path) >>
    /\ http.req.authorization # Str(BEARER \o app.adminToken) =>
         /\ http.calls = << >>
         /\ http.status =
              IF http.req.body = "malformed" THEN BAD_REQUEST
              ELSE IF BearerHeader(http.req.authorization) THEN FORBIDDEN
              ELSE UNAUTHORIZED

C18_Witness ==
  /\ AdminRequest
  /\ app.adminToken = TOKEN_U
  /\ http.req.authorization = Str(BEARER \o TOKEN_U)
  /\ http.calls = << "startGASPSync" >>
  /\ http.status = OK

\* the evaluation e is over: skipped, or its store call returned, or it was
\* healthy with nothing to decrement
Finished(e) ==
  \/ e.id = 0
  \/ e.verdict = "skipped"
  \/ e.verdict = "unhealthy" /\ Len(e.ops) = 1
  \/ e.verdict = "healthy"
       /\ Len(e.ops) = (IF CurrentDown(e.fetched) > 0 THEN 1 ELSE 0)

\* C19: a record is evaluated only after the fetch of its collection has
\* returned it and after the evaluation before it is over, store call
\* included; slapRecords is fetched only after every fetched record of
\* shipRecords has been evaluated.
C19_StrictOrder ==
  [][\A j \in Slots :
       /\ StartsEvaluation(j) =>
            /\ fetches[j] # << >>
            /\ fetches[j][Len(fetches[j])] = [coll |-> coll[j], ok |-> TRUE]
            /\ Output(j).id \in fetched[j] \cap IdsOf(coll[j])
            /\ Finished(cur[j])
       /\ (pc'[j] = "fetch" /\ coll'[j] = "slapRecords") =>
            /\ fetches'[j] = << [coll |-> "shipRecords", ok |-> TRUE] >>
                 \/ fetches'[j] = << [coll |-> "shipRecords", ok |-> FALSE] >>
            /\ (fetched'[j] \cap ShipIds) \subseteq evaluated'[j]
            /\ Finished(cur'[j])]_vars

C19_Witness ==
  \E j \in Slots :
    /\ pc[j] = "probe"
    /\ coll[j] = "slapRecords"
    /\ evaluated[j] = Ids
    /\ fetches[j] = << [coll |-> "shipRecords", ok |-> TRUE],
                       [coll |-> "slapRecords", ok |-> TRUE] >>
    /\ Len(issued[j]) = Cardinality(ShipIds)

\* C20: when every store call and every probe settles, a pass that was
\* started completes: run() resolves, and every record a successful fetch
\* returned has been evaluated.
C20_RunCompletes ==
  \A j \in SeqSlots :
    Running(j) ~>
      (pc[j] = "done" /\ result[j] = "resolved" /\ fetched[j] \subseteq evaluated[j])

C20_Witness ==
  \E j \in SeqSlots :
    /\ pc[j] = "done"
    /\ result[j] = "resolved"
    /\ fetched[j] = Ids
    /\ evaluated[j] = Ids
    /\ failed[j] = Ids

\* per record shape: new URL(...) throws inside isValidDomain
UrlThrows == [s \in Shapes |->
  ExtractedURL[s] # Null /\ ~ParseURL(WithScheme(ExtractedURL[s].v)).ok]

\* the evaluation e met an exception before its transition: new URL threw in
\* isValidDomain or in checkHealthEndpoint, or fetch or response.json()
\* rejected
ThrewBeforeTransition(e) ==
  \/ e.id # 0 /\ UrlThrows[recs[e.id]]
  \/ e.valid /\ ~e.probed /\ e.verdict = "unhealthy"
  \/ e.probed /\ ProbeErrored(e.outcome)

\* the first store call of evaluation e was rejected
StoreThrew(e) == e.ops # << >> /\ ~e.ops[1].ok

\* C21 as stated: every exception met while a record is evaluated, a rejected
\* store call of its transition included, is followed by one attempt to apply
\* the unhealthy transition to the record.
C21_ExceptionThenUnhealthyAttempt ==
  \A j \in Slots :
    Handled(j) =>
      /\ ThrewBeforeTransition(cur[j]) => UnhealthyTransition(cur[j])
      /\ (StoreThrew(cur[j]) /\ ~ThrewBeforeTransition(cur[j])) =>
           /\ Len(cur[j].ops) = 2
           /\ cur[j].ops[2].op = UnhealthyOp(CurrentDown(cur[j].fetched))

\* C21 amended: an exception in validation or probing makes the record
\* unhealthy and is followed by exactly one attempt to apply the unhealthy
\* transition; a rejected store call, of either transition, is logged inside
\* its handler and followed by no further store call for the record; in
\* neither case does anything reach the catch of checkTopicOutputs or of run().
C21_ExceptionContained ==
  \A j \in Slots :
    Handled(j) =>
      /\ ThrewBeforeTransition(cur[j]) =>
           cur[j].verdict = "unhealthy" /\ UnhealthyTransition(cur[j])
      /\ StoreThrew(cur[j]) =>
           /\ Len(cur[j].ops) = 1
           /\ cur[j].log[Len(cur[j].log)] = "error"
      /\ Len(errlog[j]) = Len(FailedFetches(j))
      /\ result[j] # "rejected"

C21_Witness ==
  \E j \in Slots :
    /\ Handled(j)
    /\ cur[j].verdict = "healthy"
    /\ cur[j].ops = << Call("updateOne", cur[j].id, -1, FALSE) >>
    /\ cur[j].id \in docs
    /\ pc[j] = "done"

\* C22: when the store rejects the increment, decrement or delete of a
\* record, the stored record is as it was when the pass started, the pass
\* issues no second call for it, and run() resolves.
C22_FailedWriteLeavesState ==
  \A j \in Slots :
    /\ \A k \in 1..Len(issued[j]) :
         ~issued[j][k].ok =>
           /\ (issued[j][k].id \in docs) = (issued[j][k].id \in pre[j].docs)
           /\ down[issued[j][k].id] = pre[j].down[issued[j][k].id]
           /\ \A m \in 1..Len(issued[j]) :
                issued[j][m].id = issued[j][k].id => m = k
    /\ pc[j] = "done" => result[j] = "resolved"

C22_Witness ==
  \E j \in Slots :
    /\ pc[j] = "done"
    /\ result[j] = "resolved"
    /\ Len(issued[j]) = Cardinality(Ids)
    /\ issued[j][1] = Call("deleteOne", 1, 0, FALSE)
    /\ issued[j][2] = Call("updateOne", 2, 1, FALSE)
    /\ issued[j][3] = Call("updateOne", 3, -1, FALSE)
    /\ docs = Ids

\* the verdict of a record as its own address fields and its own probe
\* outcome decide it
OwnVerdict(rec, outcome) ==
  IF RouteOf[rec] = "skip" THEN "skipped"
  ELSE IF RouteOf[rec] # "probe" THEN "unhealthy"
  ELSE IF IsHealthy(outcome) THEN "healthy"
  ELSE "unhealthy"

\* the store call that the verdict and the record's own down field decide
OwnCall(id, verdict, d) ==
  IF verdict = "skipped" THEN << >>
  ELSE IF verdict = "healthy"
  THEN (IF CurrentDown(d) > 0 THEN << [op |-> "updateOne", id |-> id, delta |-> -1] >>
        ELSE << >>)
  ELSE IF CurrentDown(d) + 1 >= hostDownRevokeScore
  THEN << [op |-> "deleteOne", id |-> id, delta |-> 0] >>
  ELSE << [op |-> "updateOne", id |-> id, delta |-> 1] >>

\* C23: the store call issued for a record in a pass is a function of the
\* record's own address fields, its own down field as stored when the pass
\* fetched it, its own probe outcome and hostDownRevokeScore, whatever the
\* fields and probe outcomes (timeouts included) of the other records are.
C23_RecordsIndependent ==
  \A j \in Slots :
    (cur[j].id # 0 /\ pc[j] \notin {"probe", "body", "healthy", "unhealthy"}) =>
      [k \in 1..Len(cur[j].ops) |->
         [op |-> cur[j].ops[k].op, id |-> cur[j].ops[k].id,
          delta |-> cur[j].ops[k].delta]]
        = OwnCall(cur[j].id, OwnVerdict(recs[cur[j].id], cur[j].outcome),
                  pre[j].down[cur[j].id])

C23_Witness ==
  \E j \in Slots :
    /\ Handled(j)
    /\ cur[j].id = 2
    /\ cur[j].verdict = "healthy"
    /\ cur[j].ops = << Call("updateOne", 2, -1, TRUE) >>
    /\ issued[j][1] = Call("updateOne", 1, 1, TRUE)
    /\ 1 \in failed[j]
    /\ pre[j].down[1] # pre[j].down[2]

\* the sum of the deltas of the calls of s that the store acknowledged for id
RECURSIVE Applied(_, _)
Applied(s, id) ==
  IF s = << >> THEN 0
  ELSE (IF Head(s).id = id /\ Head(s).ok THEN Head(s).delta ELSE 0)
         + Applied(Tail(s), id)

\* every pass started so far is the first pass of its slot, so that issued
\* holds every store call made since the first pass started
OnePassPerSlot ==
  budget = MaxOverlap - Cardinality({j \in Slots : pc[j] # "idle"})

\* C24: while two passes overlap on one store no counter update is lost: the
\* stored down of every record still in the store is its value before the
\* passes plus the increments and minus the decrements that the store
\* acknowledged to either pass.
C24_NoLostUpdate ==
  OnePassPerSlot =>
    \A i \in docs :
      down[i] = Num(CurrentDown(origin[i]) + Applied(issued[1], i)
                      + Applied(issued[2], i))

C24_Witness ==
  /\ Running(1) /\ Running(2)
  /\ pre[1] = pre[2]
  /\ issued[1] = << Call("updateOne", 1, 1, TRUE) >>
  /\ issued[2] = << Call("updateOne", 1, 1, TRUE) >>
  /\ origin[1] = Num(0)
  /\ down[1] = Num(2)

\* C25 as stated: a decrement is applied only to a record whose stored down
\* is above 0 when it is applied, so the stored down of a record that was
\* decremented is never below 0, also when two passes overlap.
C25_NoStaleDecrement ==
  \A i \in docs :
    (\E j \in Slots : \E k \in 1..Len(issued[j]) :
       issued[j][k] = Call("updateOne", i, -1, TRUE)) =>
      down[i].t = "number" /\ down[i].n >= 0

\* C26 as stated: a record that is in the store and has just been evaluated
\* unhealthy has a stored down below hostDownRevokeScore, also when two
\* passes overlap.
C26_NoSurvivorAtThreshold ==
  \A j \in Slots :
    (Handled(j) /\ cur[j].verdict = "unhealthy" /\ cur[j].id \in docs
       /\ down[cur[j].id].t = "number") =>
      down[cur[j].id].n < hostDownRevokeScore

Max(a, b) == IF a >= b THEN a ELSE b

\* the passes started so far are over, each of them evaluated record i, and
\* each evaluation was unhealthy
UnhealthyInEveryPass(i, passes) ==
  /\ \A j \in SeqSlots : ~Running(j)
  /\ passes - budget = Len(hist[i])
  /\ \A k \in 1..Len(hist[i]) : hist[i][k] = "U"

\* C27: over a store that acknowledges every call, a record evaluated
\* unhealthy in every pass is gone after at most max(1, hostDownRevokeScore)
\* consecutive passes, and after exactly hostDownRevokeScore passes when it
\* starts at down = 0.
C27_EvictedWithinThreshold ==
  \A i \in observed :
    UnhealthyInEveryPass(i, MaxEvictPasses) =>
      /\ i \in docs => Len(hist[i]) < Max(1, hostDownRevokeScore)
      /\ origin[i] = Num(0) =>
           /\ i \in docs => Len(hist[i]) < hostDownRevokeScore
           /\ i \notin docs => Len(hist[i]) = hostDownRevokeScore

C27_Witness ==
  /\ UnhealthyInEveryPass(1, MaxEvictPasses)
  /\ origin[1] = Num(0)
  /\ 1 \notin docs
  /\ Len(hist[1]) = hostDownRevokeScore
\* C30: configureLookupServiceWithKnex without Knex,
\* configureLookupServiceWithMongo without MongoDB and configureEngine without
\* the database it needs throw, invoke no service factory, and leave managers,
\* services, migrationsToRun and engine as they were before the call.
C30_ThrowLeavesConfiguration ==
  app.last.threw =>
    /\ app.last.factory = 0
    /\ Configuration(app) = app.last.before

\* position of event e in the events of the latest start(), 0 when absent
When(e) ==
  IF \E k \in 1..Len(app.events) : app.events[k] = e
  THEN CHOOSE k \in 1..Len(app.events) : app.events[k] = e
  ELSE 0

\* the latest start() saw a startup sync reject
SyncRejected ==
  \/ When("syncAdvertisements:rejected") > 0
  \/ When("startGASPSync:rejected") > 0

\* C28: start() has completed the Knex migrations before it listens, and a
\* rejection of engine.syncAdvertisements() or engine.startGASPSync() during
\* startup neither rejects start() nor keeps the server from listening.
C28_MigrateThenListenDespiteSync ==
  /\ app.listening =>
       /\ app.migrations = "run"
       /\ 0 < When("migrate") /\ When("migrate") < When("listen")
  /\ SyncRejected =>
       /\ app.started = "resolved"
       /\ app.listening
       /\ app.events[Len(app.events)] = "listen"

C28_Witness ==
  /\ app.listening
  /\ app.started = "resolved"
  /\ app.events = << "migrate", "syncAdvertisements:rejected",
                     "startGASPSync:rejected", "listen" >>

\* C29: for every /submit request the handler sends exactly one response,
\* whether or not engine.submit invokes the STEAK callback and whether it then
\* resolves or rejects.
C29_SubmitRespondsOnce ==
  http.req.path = SUBMIT => Len(http.sends) = 1

====
